---------------------------- MODULE Spec2Model ----------------------------
(***************************************************************************)
(* A model of doxdepends.py: the Grapher that reads Doxygen's XML index    *)
(* and detail records, accumulates the dependency, nesting and group       *)
(* dictionaries, optionally reports two-entity cycles, and assembles and   *)
(* writes the dot graph through the Writer.                                *)
(*                                                                         *)
(* Strings are sequences of one-character strings.  Python's None is the   *)
(* model value None.  A dict whose iteration order the code relies on is a *)
(* sequence of <<key, value>> pairs in insertion order; a dict that is     *)
(* only looked up or sorted before use is a function.                      *)
(***************************************************************************)
EXTENDS Integers, Sequences, FiniteSets, TLC

VARIABLES
    pc,                \* position in main(): see PcValues
    target_namespace,  \* Grapher._target_namespace (None or a string)
    index_ok,          \* whether index.xml parsed: "unread", "ok", "failed"
    ref_dict,          \* Grapher._ref_dict: refid -> name
    dep_dict,          \* Grapher._dep_dict: ordered refid -> set of refids
    nested_dict,       \* Grapher._nested_dict: ordered inner -> outer
    group_dict,        \* Grapher._group_dict: refid -> group refid
    cur,               \* refid of the class record being processed, or None
    phase,             \* which loop of _ProcessClassFile is running
    elements_read,     \* history: the reference-bearing elements of the
                       \* detail records read so far
    reported,          \* pairs printed by ReportCycles
    writer_f,          \* Writer._f: "unset", "open" or NoFile
    out,               \* lines written to the output file
    full_name,         \* argument of a _GetShortName call (SpecShortName)
    short_name         \* its result, or None before the call (SpecShortName)

vars == <<pc, target_namespace, index_ok, ref_dict, dep_dict, nested_dict,
          group_dict, cur, phase, elements_read, reported, writer_f, out,
          full_name, short_name>>

passvars == <<ref_dict, dep_dict, nested_dict, group_dict, elements_read>>
outvars == <<reported, writer_f, out>>
namevars == <<full_name, short_name>>

\* Python's None: a sequence that is no string of characters, so that it
\* can be compared with strings.
None == <<"None">>

\* Writer._f after a failed open().
NoFile == "None"

\* "report_error" and "output_error": an uncaught exception ended the run
\* in ReportCycles or in OutputDotGraph.
PcValues ==
    {"start", "index", "processed", "reported", "done", "report_error",
     "output_error"}

----------------------------------------------------------------------------
(* Bounds of the model.                                                    *)

\* Longest name handed to _GetShortName in SpecShortName.
MaxNameLen == 6

\* Number of reference-bearing elements (basecompoundref, innerclass,
\* memberdef) one run reads from all its detail records.
MaxElements == 4

----------------------------------------------------------------------------
(* Strings.                                                                *)

Chars == {"P", ":", ".", "A"}

ColonColon == <<":", ":">>
Dot == <<".">>

\* str.startswith
StartsWith(s, p) ==
    /\ Len(p) <= Len(s)
    /\ SubSeq(s, 1, Len(p)) = p

DropFirst(s, n) == SubSeq(s, n + 1, Len(s))

\* str.replace(old, new) for a non-empty old: every non-overlapping
\* occurrence, leftmost first.
RECURSIVE StrReplace(_, _, _)
StrReplace(s, old, new) ==
    IF Len(s) < Len(old) THEN s
    ELSE IF StartsWith(s, old)
         THEN new \o StrReplace(DropFirst(s, Len(old)), old, new)
         ELSE <<Head(s)>> \o StrReplace(Tail(s), old, new)

\* Code points of the characters used, for Python's string comparison.
Ord(c) ==
    CASE c = "." -> 46
      [] c = ":" -> 58
      [] c = "1" -> 49
      [] c = "2" -> 50
      [] c = "3" -> 51
      [] c = "A" -> 65
      [] c = "B" -> 66
      [] c = "C" -> 67
      [] c = "G" -> 71
      [] c = "H" -> 72
      [] c = "O" -> 79
      [] c = "P" -> 80
      [] c = "_" -> 95
      [] c = "a" -> 97
      [] c = "c" -> 99
      [] c = "g" -> 103

\* s < t for strings
RECURSIVE StrLess(_, _)
StrLess(s, t) ==
    IF t = <<>> THEN FALSE
    ELSE IF s = <<>> THEN TRUE
    ELSE IF Head(s) = Head(t) THEN StrLess(Tail(s), Tail(t))
    ELSE Ord(Head(s)) < Ord(Head(t))

----------------------------------------------------------------------------
(* Namespace rule and short names.                                         *)

IncludeName(ns, name) ==
    \/ ns = None
    \/ StartsWith(name, ns \o ColonColon)
    \/ StartsWith(name, ns \o Dot)

GetShortName(ns, name) ==
    IF ns /= None /\ StartsWith(name, ns \o ColonColon)
    THEN StrReplace(name, ns \o ColonColon, <<>>)
    ELSE name

----------------------------------------------------------------------------
(* The corpus: what index.xml and the detail records may hold.             *)

Namespaces == {None, <<"P">>}

K1 == <<"c", "_", "1">>
K2 == <<"c", "_", "2">>
K3 == <<"c", "_", "3">>
G1 == <<"g", "_", "1">>
G2 == <<"g", "_", "2">>

ClassKeys == {K1, K2, K3}
GroupKeys == {G1, G2}
Keys == ClassKeys \cup GroupKeys

\* <name> of the <compound> with the given refid in index.xml.
IndexName(k) ==
    CASE k = K1 -> <<"P", ":", ":", "A">>
      [] k = K2 -> <<"P", ".", "B">>
      [] k = K3 -> <<"O", ":", ":", "C">>
      [] k = G1 -> <<"G">>
      [] k = G2 -> <<"H">>

\* kind of the <compound> with the given refid in index.xml.
IndexKind(k) == IF k \in GroupKeys THEN "group" ELSE "class"

\* refid of a member function of class k: the class refid, an underscore
\* and a unique suffix.
MemberRefId(k) == k \o <<"_", "a">>

Element(rec, kind, name, refid, params, refbys) ==
    [rec |-> rec, kind |-> kind, name |-> name, refid |-> refid,
     params |-> params, refbys |-> refbys]

\* The reference-bearing elements the detail records may hold.  rec is the
\* refid of the record (<rec>.xml); refid is the refid attribute of a
\* basecompoundref or innerclass, or of the <ref> inside the <type> of a
\* memberdef (None without one); name is the text of a basecompoundref;
\* params are the refids of the <ref>s in a function's <param> types;
\* refbys the refids of its <referencedby> elements in document order.
Corpus ==
    {Element(G1, "innerclass", None, K1, {}, <<>>),
     Element(G1, "innerclass", None, K2, {}, <<>>),
     Element(G2, "innerclass", None, K2, {}, <<>>),
     Element(G2, "innerclass", None, K3, {}, <<>>),
     Element(K1, "innerclass", None, K2, {}, <<>>),
     Element(K2, "innerclass", None, K3, {}, <<>>),
     Element(K3, "innerclass", None, K1, {}, <<>>),
     Element(K1, "basecompoundref", <<"P", ":", ":", "O">>, None, {}, <<>>),
     Element(K2, "basecompoundref", IndexName(K1), K1, {}, <<>>),
     Element(K2, "basecompoundref", IndexName(K3), K3, {}, <<>>),
     Element(K1, "variable", None, K3, {}, <<>>),
     Element(K3, "variable", None, K1, {}, <<>>),
     Element(K2, "function", None, K3, {K1}, <<>>),
     Element(K1, "function", None, None, {K1}, <<MemberRefId(K1)>>),
     Element(K1, "function", None, None, {}, <<MemberRefId(K3)>>)}

ElementsOf(rec, kind) == {e \in Corpus : e.rec = rec /\ e.kind = kind}

\* str.rsplit('_', 1)[0]
RECURSIVE RSplitHead(_)
RSplitHead(s) ==
    IF \A i \in DOMAIN s : s[i] /= "_" THEN s
    ELSE IF s[Len(s)] = "_" THEN SubSeq(s, 1, Len(s) - 1)
    ELSE RSplitHead(SubSeq(s, 1, Len(s) - 1))

----------------------------------------------------------------------------
(* Ordered dicts: sequences of <<key, value>> in insertion order.          *)

OKeys(d) == {d[i][1] : i \in DOMAIN d}

OGet(d, k) == d[CHOOSE i \in DOMAIN d : d[i][1] = k][2]

\* dict.get(k, default)
OGetDefault(d, k, default) == IF k \in OKeys(d) THEN OGet(d, k) ELSE default

\* d[k] = v: an existing key keeps its place.
OSet(d, k, v) ==
    IF k \in OKeys(d)
    THEN [i \in DOMAIN d |-> IF d[i][1] = k THEN <<k, v>> ELSE d[i]]
    ELSE Append(d, <<k, v>>)

\* d[k] = v for a dict kept as a function
FSet(f, k, v) == [x \in DOMAIN f \cup {k} |-> IF x = k THEN v ELSE f[x]]

----------------------------------------------------------------------------
(* Grapher: the processing pass.                                           *)

AddDependencyNoSelfCheck(d, from_refid, to_refid) ==
    OSet(d, from_refid, OGetDefault(d, from_refid, {}) \cup {to_refid})

AddDependency(d, from_refid, to_refid) ==
    IF from_refid /= to_refid
    THEN OSet(d, from_refid, OGetDefault(d, from_refid, {}) \cup {to_refid})
    ELSE d

\* The loop over a function's <param> elements.
RECURSIVE AddParams(_, _, _)
AddParams(d, class_refid, params) ==
    IF params = {} THEN d
    ELSE LET t == CHOOSE x \in params : TRUE
         IN  AddParams(AddDependency(d, class_refid, t), class_refid,
                       params \ {t})

\* The loop over a function's <referencedby> elements, in document order.
RECURSIVE AddReferencedBy(_, _, _)
AddReferencedBy(d, class_refid, refbys) ==
    IF refbys = <<>> THEN d
    ELSE AddReferencedBy(
             AddDependency(d, RSplitHead(Head(refbys)), class_refid),
             class_refid, Tail(refbys))

ProcessClassFunction(d, class_refid, func) ==
    AddReferencedBy(AddParams(d, class_refid, func.params), class_refid,
                    func.refbys)

ProcessClassMember(d, class_refid, member) ==
    IF member.kind = "variable"
    THEN IF member.refid /= None
         THEN AddDependency(d, class_refid, member.refid)
         ELSE d
    ELSE IF member.kind = "function"
    THEN ProcessClassFunction(
             IF member.refid /= None
             THEN AddDependency(d, class_refid, member.refid)
             ELSE d,
             class_refid, member)
    ELSE d

\* _ProcessGroupFile's loop over the <innerclass> elements of a group.
RECURSIVE ProcessGroupFile(_, _, _)
ProcessGroupFile(g, refid, innerclasses) ==
    IF innerclasses = {} THEN g
    ELSE LET m == CHOOSE x \in innerclasses : TRUE
         IN  ProcessGroupFile(FSet(g, m.refid, refid), refid,
                              innerclasses \ {m})

Init ==
    /\ pc = "start"
    /\ target_namespace \in Namespaces
    /\ index_ok = "unread"
    /\ ref_dict = <<>>
    /\ dep_dict = <<>>
    /\ nested_dict = <<>>
    /\ group_dict = <<>>
    /\ cur = None
    /\ phase = "none"
    /\ elements_read = {}
    /\ reported = {}
    /\ writer_f = "unset"
    /\ out = <<>>
    /\ full_name = <<>>
    /\ short_name = None

\* _ProcessIndexFile: index.xml is missing or does not parse.
IndexUnavailable ==
    /\ pc = "start"
    /\ index_ok' = "failed"
    /\ pc' = "processed"
    /\ UNCHANGED <<target_namespace, passvars, cur, phase, outvars, namevars>>

\* _ProcessIndexFile: index.xml parsed, the loop over compounds starts.
IndexParsed ==
    /\ pc = "start"
    /\ index_ok' = "ok"
    /\ pc' = "index"
    /\ UNCHANGED <<target_namespace, passvars, cur, phase, outvars, namevars>>

\* A <compound kind="group">: registered, then _ProcessGroupFile, whose
\* record is missing or holds the given <innerclass> elements.  The loops
\* over the previous class record, if any, have ended.
CompoundGroup(refid, fetched, innerclasses) ==
    /\ pc = "index"
    /\ refid \in GroupKeys \ DOMAIN ref_dict
    /\ ~fetched => innerclasses = {}
    /\ Cardinality(elements_read \cup innerclasses) <= MaxElements
    /\ ref_dict' = FSet(ref_dict, refid, IndexName(refid))
    /\ group_dict' = IF fetched
                     THEN ProcessGroupFile(group_dict, refid, innerclasses)
                     ELSE group_dict
    /\ elements_read' = elements_read \cup innerclasses
    /\ cur' = None
    /\ phase' = "none"
    /\ UNCHANGED <<pc, target_namespace, index_ok, dep_dict, nested_dict,
                   outvars, namevars>>

\* A class, struct or interface <compound>: registered, and its record is
\* opened when the name is in the namespace and the record parses.
CompoundClass(refid, fetched) ==
    /\ pc = "index"
    /\ refid \in ClassKeys \ DOMAIN ref_dict
    /\ ref_dict' = FSet(ref_dict, refid, IndexName(refid))
    /\ IF IncludeName(target_namespace, IndexName(refid)) /\ fetched
       THEN cur' = refid /\ phase' = "base"
       ELSE cur' = None /\ phase' = "none"
    /\ UNCHANGED <<pc, target_namespace, index_ok, dep_dict, nested_dict,
                   group_dict, elements_read, outvars, namevars>>

\* _ProcessClassFile, first loop: a <basecompoundref>.
BaseRef(b) ==
    /\ pc = "index" /\ cur /= None /\ phase = "base"
    /\ b \in ElementsOf(cur, "basecompoundref") \ elements_read
    /\ Cardinality(elements_read) < MaxElements
    /\ dep_dict' = IF b.name /= None /\ IncludeName(target_namespace, b.name)
                   THEN AddDependency(dep_dict, cur, b.refid)
                   ELSE dep_dict
    /\ elements_read' = elements_read \cup {b}
    /\ UNCHANGED <<pc, target_namespace, index_ok, ref_dict, nested_dict,
                   group_dict, cur, phase, outvars, namevars>>

\* _ProcessClassFile, second loop: an <innerclass>.
InnerClass(innerclass) ==
    /\ pc = "index" /\ cur /= None /\ phase \in {"base", "inner"}
    /\ innerclass \in ElementsOf(cur, "innerclass") \ elements_read
    /\ Cardinality(elements_read) < MaxElements
    /\ dep_dict' = AddDependency(dep_dict, cur, innerclass.refid)
    /\ nested_dict' = OSet(nested_dict, innerclass.refid, cur)
    /\ elements_read' = elements_read \cup {innerclass}
    /\ phase' = "inner"
    /\ UNCHANGED <<pc, target_namespace, index_ok, ref_dict, group_dict, cur,
                   outvars, namevars>>

\* _ProcessClassFile, third loop: a <memberdef>, through
\* _ProcessClassMember.
Member(member) ==
    /\ pc = "index" /\ cur /= None
    /\ member \in (ElementsOf(cur, "variable") \cup ElementsOf(cur, "function"))
                      \ elements_read
    /\ Cardinality(elements_read) < MaxElements
    /\ dep_dict' = ProcessClassMember(dep_dict, cur, member)
    /\ elements_read' = elements_read \cup {member}
    /\ phase' = "member"
    /\ UNCHANGED <<pc, target_namespace, index_ok, ref_dict, nested_dict,
                   group_dict, cur, outvars, namevars>>

\* The loop over compounds ends; ProcessXML returns to main.
EndIndex ==
    /\ pc = "index"
    /\ pc' = "processed"
    /\ cur' = None
    /\ phase' = "none"
    /\ UNCHANGED <<target_namespace, index_ok, passvars, outvars, namevars>>

Pass ==
    \/ IndexUnavailable
    \/ IndexParsed
    \/ \E g \in GroupKeys, fetched \in BOOLEAN :
           \E innerclasses \in SUBSET ElementsOf(g, "innerclass") :
               CompoundGroup(g, fetched, innerclasses)
    \/ \E k \in ClassKeys, fetched \in BOOLEAN : CompoundClass(k, fetched)
    \/ \E b \in Corpus : BaseRef(b)
    \/ \E i \in Corpus : InnerClass(i)
    \/ \E m \in Corpus : Member(m)
    \/ EndIndex

----------------------------------------------------------------------------
(* Grapher.ReportCycles.                                                   *)

\* The edges the dependency dict holds.
Edges(d) == UNION {{<<d[i][1], t>> : t \in d[i][2]} : i \in DOMAIN d}

\* The (key, dep) pairs for which the test of ReportCycles succeeds.
CyclePairs(d) ==
    {e \in Edges(d) : e[2] \in OKeys(d) /\ e[1] \in OGet(d, e[2])}

\* Printing a pair looks both names up in _ref_dict: a KeyError for a
\* refid that index.xml did not list.
PrintFails(r, pair) == pair[1] \notin DOMAIN r \/ pair[2] \notin DOMAIN r

\* ReportCycles with every name found: all pairs are printed.
ReportCycles ==
    /\ pc = "processed"
    /\ \A p \in CyclePairs(dep_dict) : ~PrintFails(ref_dict, p)
    /\ reported' = CyclePairs(dep_dict)
    /\ pc' = "reported"
    /\ UNCHANGED <<target_namespace, index_ok, passvars, cur, phase, writer_f,
                   out, namevars>>

\* ReportCycles ending in a KeyError.  The dict is walked in insertion
\* order and each value set in an order the hash seed decides: the pairs
\* of earlier keys are printed, and any of the printable pairs of the key
\* at which the lookup fails may be printed before it.
ReportCyclesKeyError ==
    /\ pc = "processed"
    /\ \E p \in CyclePairs(dep_dict) : PrintFails(ref_dict, p)
    /\ LET failing == {i \in DOMAIN dep_dict :
                          \E p \in CyclePairs(dep_dict) :
                              p[1] = dep_dict[i][1] /\ PrintFails(ref_dict, p)}
           first == CHOOSE i \in failing : \A j \in failing : i <= j
           before == {p \in CyclePairs(dep_dict) :
                         \E i \in 1..(first - 1) : p[1] = dep_dict[i][1]}
           same == {p \in CyclePairs(dep_dict) :
                       p[1] = dep_dict[first][1] /\ ~PrintFails(ref_dict, p)}
       IN  \E some \in SUBSET same : reported' = before \cup some
    /\ pc' = "report_error"
    /\ UNCHANGED <<target_namespace, index_ok, passvars, cur, phase, writer_f,
                   out, namevars>>

----------------------------------------------------------------------------
(* Grapher.OutputDotGraph and the Writer.                                  *)

\* sorted() of a set of strings
RECURSIVE SortedSet(_)
SortedSet(S) ==
    IF S = {} THEN <<>>
    ELSE LET m == CHOOSE x \in S : \A y \in S \ {x} : StrLess(x, y)
         IN  <<m>> \o SortedSet(S \ {m})

\* sorted() of a list of strings
RECURSIVE InsertSorted(_, _)
InsertSorted(sorted, x) ==
    IF sorted = <<>> THEN <<x>>
    ELSE IF StrLess(x, Head(sorted)) THEN <<x>> \o sorted
    ELSE <<Head(sorted)>> \o InsertSorted(Tail(sorted), x)

RECURSIVE SortedList(_)
SortedList(list) ==
    IF list = <<>> THEN <<>>
    ELSE InsertSorted(SortedList(Tail(list)), Head(list))

\* A set as a list, in some order.
RECURSIVE ListOf(_)
ListOf(S) ==
    IF S = {} THEN <<>>
    ELSE LET m == CHOOSE x \in S : TRUE IN <<m>> \o ListOf(S \ {m})

RecursionError == <<"RecursionError">>

\* _GetGroup, the nested function of _FindNestedClassGroups.  Walking up
\* a nesting cycle that holds no group never returns: Python raises
\* RecursionError.
RECURSIVE GetGroup(_, _, _, _)
GetGroup(g, n, refid, visited) ==
    IF refid = None THEN None
    ELSE IF refid \in DOMAIN g THEN g[refid]
    ELSE IF refid \in visited THEN RecursionError
    ELSE GetGroup(g, n, OGetDefault(n, refid, None), visited \cup {refid})

\* The loop of _FindNestedClassGroups from entry i on: the group dict it
\* leaves, and whether it ended in a RecursionError.
RECURSIVE FindNestedFrom(_, _, _)
FindNestedFrom(g, n, i) ==
    IF i > Len(n) THEN [g |-> g, err |-> FALSE]
    ELSE LET group_refid == GetGroup(g, n, n[i][2], {})
         IN  IF group_refid = RecursionError THEN [g |-> g, err |-> TRUE]
             ELSE IF group_refid /= None
             THEN FindNestedFrom(FSet(g, n[i][1], group_refid), n, i + 1)
             ELSE FindNestedFrom(g, n, i + 1)

FindNestedClassGroups(g, n) == FindNestedFrom(g, n, 1)

\* group refid -> the refids of its members
GetSubgraphDict(g) ==
    [v \in {g[k] : k \in DOMAIN g} |-> {k \in DOMAIN g : g[k] = v}]

WriterClass(label, url_ref) == [label |-> label, url_ref |-> url_ref]

\* _CollectGroups looks up the name of every group and of every member.
CollectGroupsKeyError(r, subgraph_dict) ==
    \E v \in DOMAIN subgraph_dict :
        v \notin DOMAIN r \/ \E m \in subgraph_dict[v] : m \notin DOMAIN r

RECURSIVE CollectMembers(_, _, _)
CollectMembers(r, ns, members) ==
    IF members = <<>> THEN <<>>
    ELSE LET name == r[Head(members)]
             rest == CollectMembers(r, ns, Tail(members))
         IN  IF IncludeName(ns, name)
             THEN <<WriterClass(GetShortName(ns, name), name)>> \o rest
             ELSE rest

RECURSIVE CollectGroupsFrom(_, _, _, _)
CollectGroupsFrom(r, ns, subgraph_dict, groups) ==
    IF groups = <<>> THEN <<>>
    ELSE <<[label |-> r[Head(groups)],
            member_classes |->
                CollectMembers(r, ns,
                               SortedSet(subgraph_dict[Head(groups)]))]>>
             \o CollectGroupsFrom(r, ns, subgraph_dict, Tail(groups))

CollectGroups(r, ns, subgraph_dict) ==
    CollectGroupsFrom(r, ns, subgraph_dict, SortedSet(DOMAIN subgraph_dict))

RECURSIVE CollectUngroupedFrom(_, _, _, _)
CollectUngroupedFrom(r, ns, subgraph_dict, refids) ==
    IF refids = <<>> THEN <<>>
    ELSE LET name == r[Head(refids)]
             rest == CollectUngroupedFrom(r, ns, subgraph_dict, Tail(refids))
         IN  IF Head(refids) \in DOMAIN subgraph_dict THEN rest
             ELSE IF IncludeName(ns, name)
             THEN <<WriterClass(GetShortName(ns, name), name)>> \o rest
             ELSE rest

CollectUngroupedClasses(r, ns, subgraph_dict) ==
    CollectUngroupedFrom(r, ns, subgraph_dict, SortedSet(DOMAIN r))

\* _CollectDependencies looks up the name of every key of _dep_dict.
CollectDependenciesKeyError(r, d) == \E k \in OKeys(d) : k \notin DOMAIN r

RECURSIVE ShortNames(_, _, _)
ShortNames(r, ns, deps) ==
    IF deps = <<>> THEN <<>>
    ELSE <<GetShortName(ns, r[Head(deps)])>> \o ShortNames(r, ns, Tail(deps))

RECURSIVE CollectDependenciesFrom(_, _, _, _)
CollectDependenciesFrom(r, ns, d, refids) ==
    IF refids = <<>> THEN <<>>
    ELSE LET deps == ListOf({dep \in OGet(d, Head(refids)) :
                                dep \in DOMAIN r})
         IN  <<[label |-> GetShortName(ns, r[Head(refids)]),
                dependency_labels |-> SortedList(ShortNames(r, ns, deps))]>>
                 \o CollectDependenciesFrom(r, ns, d, Tail(refids))

CollectDependencies(r, ns, d) ==
    CollectDependenciesFrom(r, ns, d, SortedSet(OKeys(d)))

\* The lines of the output file.  One "header" line stands for the four
\* fixed lines of _WriteGraphHeader, one "cluster" line for the opening
\* and the fixed attributes of a subgraph.
RECURSIVE WriteClasses(_, _)
WriteClasses(classes, extra_indent) ==
    IF classes = <<>> THEN <<>>
    ELSE <<[line |-> "node", label |-> Head(classes).label,
            url_ref |-> Head(classes).url_ref, indent |-> extra_indent]>>
             \o WriteClasses(Tail(classes), extra_indent)

WriteGroup(group, index) ==
    <<[line |-> "cluster", index |-> index, label |-> group.label]>>
        \o WriteClasses(group.member_classes, "  ")
        \o <<[line |-> "cluster_end"]>>

RECURSIVE WriteGroups(_, _)
WriteGroups(groups, index) ==
    IF groups = <<>> THEN <<>>
    ELSE WriteGroup(Head(groups), index) \o WriteGroups(Tail(groups), index + 1)

RECURSIVE WriteDependencies(_)
WriteDependencies(dependencies) ==
    IF dependencies = <<>> THEN <<>>
    ELSE <<[line |-> "edge", label |-> Head(dependencies).label,
            targets |-> Head(dependencies).dependency_labels]>>
             \o WriteDependencies(Tail(dependencies))

WriteGraphHeader == <<[line |-> "header"]>>

WriteGraphFooter == <<[line |-> "footer"]>>

WriteSkipsEmptyGraph(groups, ungrouped_classes, dependencies) ==
    IF groups = <<>> /\ ungrouped_classes = <<>> /\ dependencies = <<>>
    THEN <<>>
    ELSE WriteGraphHeader
             \o WriteGroups(groups, 0)
             \o WriteClasses(ungrouped_classes, "")
             \o WriteDependencies(dependencies)
             \o WriteGraphFooter

\* Writer.Write with the file open.
Write(groups, ungrouped_classes, dependencies) ==
    WriteGraphHeader
        \o WriteGroups(groups, 0)
        \o WriteClasses(ungrouped_classes, "")
        \o WriteDependencies(dependencies)
        \o WriteGraphFooter

\* OutputDotGraph up to the construction of the Writer: the propagated
\* group dict, and whether an exception ended it.
Propagated == FindNestedClassGroups(group_dict, nested_dict)

AssemblyFails ==
    \/ Propagated.err
    \/ CollectGroupsKeyError(ref_dict, GetSubgraphDict(Propagated.g))
    \/ CollectDependenciesKeyError(ref_dict, dep_dict)

\* OutputDotGraph, called by main after ProcessXML and, with
\* --report_cycles, ReportCycles: the graph is assembled, the file is
\* opened (or cannot be) and written.
OutputDotGraph ==
    /\ pc \in {"processed", "reported"}
    /\ ~AssemblyFails
    /\ group_dict' = Propagated.g
    /\ \E writable \in BOOLEAN :
           IF writable
           THEN /\ writer_f' = "open"
                /\ out' = LET sub == GetSubgraphDict(Propagated.g)
                          IN  Write(
                                  CollectGroups(ref_dict, target_namespace, sub),
                                  CollectUngroupedClasses(ref_dict,
                                                          target_namespace, sub),
                                  CollectDependencies(ref_dict, target_namespace,
                                                      dep_dict))
           ELSE /\ writer_f' = NoFile
                /\ out' = out
    /\ pc' = "done"
    /\ UNCHANGED <<target_namespace, index_ok, ref_dict, dep_dict, nested_dict,
                   elements_read, cur, phase, reported, namevars>>

\* OutputDotGraph ending in a RecursionError or a KeyError before the
\* Writer exists: nothing is opened or written.
OutputDotGraphError ==
    /\ pc \in {"processed", "reported"}
    /\ AssemblyFails
    /\ group_dict' = Propagated.g
    /\ pc' = "output_error"
    /\ UNCHANGED <<target_namespace, index_ok, ref_dict, dep_dict, nested_dict,
                   elements_read, cur, phase, outvars, namevars>>

Next ==
    \/ Pass
    \/ ReportCycles
    \/ ReportCyclesKeyError
    \/ OutputDotGraph
    \/ OutputDotGraphError

Spec == Init /\ [][Next]_vars

----------------------------------------------------------------------------
(* _GetShortName on its own: every name of at most MaxNameLen characters.  *)

RECURSIVE StringsUpTo(_)
StringsUpTo(n) ==
    IF n = 0 THEN {<<>>}
    ELSE LET shorter == StringsUpTo(n - 1)
         IN  shorter \cup {Append(s, c) : s \in shorter, c \in Chars}

InitShortName ==
    /\ pc = "start"
    /\ target_namespace \in Namespaces
    /\ index_ok = "unread"
    /\ ref_dict = <<>>
    /\ dep_dict = <<>>
    /\ nested_dict = <<>>
    /\ group_dict = <<>>
    /\ cur = None
    /\ phase = "none"
    /\ elements_read = {}
    /\ reported = {}
    /\ writer_f = "unset"
    /\ out = <<>>
    /\ full_name \in StringsUpTo(MaxNameLen)
    /\ short_name = None

ShortNameCall ==
    /\ short_name = None
    /\ short_name' = GetShortName(target_namespace, full_name)
    /\ UNCHANGED <<pc, target_namespace, index_ok, passvars, cur, phase,
                   outvars, full_name>>

SpecShortName == InitShortName /\ [][ShortNameCall]_vars

----------------------------------------------------------------------------
(* The claims.                                                             *)

\* The values the variables take.
TypeOK ==
    /\ pc \in PcValues
    /\ target_namespace \in Namespaces
    /\ index_ok \in {"unread", "ok", "failed"}
    /\ DOMAIN ref_dict \subseteq Keys
    /\ cur \in ClassKeys \cup {None}
    /\ phase \in {"none", "base", "inner", "member"}
    /\ elements_read \subseteq Corpus
    /\ Cardinality(elements_read) <= MaxElements
    /\ writer_f \in {"unset", "open", NoFile}

\* The ordered pairs for which one of the five documented inference rules
\* (base type, nesting, member type, parameter type, call reference) fires
\* in the class records read so far.
RuleFirings ==
    UNION {
        IF e.kind = "basecompoundref"
        THEN IF IncludeName(target_namespace, e.name)
             THEN {<<e.rec, e.refid>>} ELSE {}
        ELSE IF e.kind \in {"innerclass", "variable"}
        THEN {<<e.rec, e.refid>>}
        ELSE {<<e.rec, p>> : p \in e.params}
                 \cup {<<RSplitHead(e.refbys[i]), e.rec>> : i \in DOMAIN e.refbys}
        : e \in {x \in elements_read : x.rec \in ClassKeys}}

\* C1: after the processing pass, for distinct entity keys A and B, the
\* edge A -> B is recorded if and only if one of the five inference rules
\* fired for (A, B); no edge is recorded for any other reason.
C1_EdgeIffRuleFires ==
    pc = "processed" =>
        \A a \in Keys, b \in Keys :
            a /= b => (<<a, b>> \in Edges(dep_dict) <=> <<a, b>> \in RuleFirings)

\* The names the lines of the output file show as nodes, edge sources and
\* edge targets.
NamesShown ==
    {out[i].url_ref : i \in {j \in DOMAIN out : out[j].line = "node"}}
        \cup {out[i].label : i \in {j \in DOMAIN out : out[j].line = "edge"}}
        \cup UNION {{out[i].targets[t] : t \in DOMAIN out[i].targets} :
                       i \in {j \in DOMAIN out : out[j].line = "edge"}}

\* C2: with a target namespace configured, a registered entity whose name
\* fails the namespace rule appears nowhere in the output: not as a node,
\* not as the source of an edge statement and not as one of its targets.
C2_ExcludedEntityNotInOutput ==
    (pc = "done" /\ target_namespace /= None) =>
        \A k \in DOMAIN ref_dict :
            ~IncludeName(target_namespace, ref_dict[k])
                => ref_dict[k] \notin NamesShown

\* C3: group propagation is idempotent: applied to the group dict that
\* OutputDotGraph left, it changes nothing.
C3_PropagationIdempotent ==
    pc = "done" => FindNestedClassGroups(group_dict, nested_dict).g = group_dict

\* C4 as claimed: when index.xml cannot be read the run stops before any
\* output: nothing is written, not even the preamble and the closing
\* token of an empty graph.
C4_NoOutputWithoutIndex ==
    index_ok = "failed" => out = <<>>

\* C4 as amended: when index.xml cannot be read the run goes on with
\* empty dicts, raises nothing, and OutputDotGraph writes, into a file it
\* could open, exactly the preamble and the closing token.
C4_EmptyGraphWithoutIndex ==
    index_ok = "failed" =>
        /\ pc \in {"processed", "reported", "done"}
        /\ ref_dict = <<>> /\ dep_dict = <<>> /\ reported = {}
        /\ writer_f = "open" => out = WriteGraphHeader \o WriteGraphFooter
        /\ writer_f /= "open" => out = <<>>
        /\ pc = "done" => writer_f /= "unset"

C4_Witness == index_ok = "failed" /\ pc = "done" /\ writer_f = "open"

\* C5: with index.xml readable, no content of the detail records (missing
\* records, refids that index.xml does not list) makes cycle reporting or
\* the assembly of the graph abort.
C5_NoAbortWithReadableIndex ==
    index_ok = "ok" => pc \notin {"report_error", "output_error"}

\* The name with one leading namespace prefix removed, for either
\* separator.
StripPrefixOnce(ns, name) ==
    IF ns /= None /\ StartsWith(name, ns \o ColonColon)
    THEN DropFirst(name, Len(ns) + 2)
    ELSE IF ns /= None /\ StartsWith(name, ns \o Dot)
    THEN DropFirst(name, Len(ns) + 1)
    ELSE name

\* C6: the short name of a name that begins with the target namespace and
\* a separator ("::" or ".") is the name without that one leading prefix,
\* later occurrences kept; any other name is returned unchanged.
C6_ShortNameStripsPrefixOnce ==
    short_name /= None => short_name = StripPrefixOnce(target_namespace, full_name)

\* C7: ReportCycles reports (A, B) exactly when both A -> B and B -> A are
\* recorded edges.
C7_ReportsExactlyTwoCycles ==
    pc \in {"reported", "report_error"} =>
        reported = {e \in Edges(dep_dict) : <<e[2], e[1]>> \in Edges(dep_dict)}

\* When every name is found, what ReportCycles prints is exactly the
\* two-entity cycles: C7 fails only through the KeyError of C5.
ReportedWithoutErrorIsExact ==
    pc = "reported" =>
        reported = {e \in Edges(dep_dict) : <<e[2], e[1]>> \in Edges(dep_dict)}

\* C8: in every state of the run no key is in its own target set.
C8_NoSelfEdge ==
    \A i \in DOMAIN dep_dict : dep_dict[i][1] \notin dep_dict[i][2]

\* A function of class c_1 whose parameter has type c_1 and which is
\* referenced by a function of c_1 has been processed, and c_1 has edges.
C8_Witness ==
    /\ Element(K1, "function", None, None, {K1}, <<MemberRefId(K1)>>)
           \in elements_read
    /\ K1 \in OKeys(dep_dict)

\* The full names of the nodes declared outside every cluster, in order.
UngroupedShown ==
    LET nodes == SelectSeq(out, LAMBDA l : l.line = "node" /\ l.indent = "")
    IN  [i \in DOMAIN nodes |-> nodes[i].url_ref]

RECURSIVE NamesOf(_, _)
NamesOf(r, refids) ==
    IF refids = <<>> THEN <<>>
    ELSE <<r[Head(refids)]>> \o NamesOf(r, Tail(refids))

\* C9: the ungrouped nodes are exactly the registered class-like entities
\* that are in no group after propagation and pass the namespace rule, in
\* the order of their keys.
C9_UngroupedList ==
    (pc = "done" /\ writer_f = "open") =>
        UngroupedShown =
            NamesOf(ref_dict,
                    SortedSet({k \in DOMAIN ref_dict :
                                  /\ IndexKind(k) /= "group"
                                  /\ k \notin DOMAIN group_dict
                                  /\ IncludeName(target_namespace, ref_dict[k])}))

\* The outermost container of x in the nesting dict: None on a nesting
\* cycle.
RECURSIVE Outermost(_, _, _)
Outermost(n, x, visited) ==
    IF x \notin OKeys(n) THEN x
    ELSE IF x \in visited THEN None
    ELSE Outermost(n, OGet(n, x), visited \cup {x})

\* C10: after propagation every entity nested, directly or indirectly, in
\* an outermost container that is a member of group G is a member of G.
\* (An outermost container is the inner class of no record, so propagation
\* leaves its group as the group records set it.)
C10_NestedInheritOutermostGroup ==
    pc = "done" =>
        \A x \in OKeys(nested_dict) :
            LET top == Outermost(nested_dict, x, {})
            IN  (top /= None /\ top \in DOMAIN group_dict)
                    => (x \in DOMAIN group_dict /\ group_dict[x] = group_dict[top])


\* The edge statements of the output file, in order.
EdgesShown == SelectSeq(out, LAMBDA l : l.line = "edge")

\* The sources of the dependency dict that keep at least one target after
\* the filtering to registered keys.
SourcesWithRetainedTarget ==
    {k \in OKeys(dep_dict) : \E dep \in OGet(dep_dict, k) : dep \in DOMAIN ref_dict}

\* C11: the output holds one edge statement for each source that keeps at
\* least one target after the filtering to registered keys, and none for
\* any other source: no edge statement has an empty target list.
C11_EdgeStatementOnlyWithRetainedTarget ==
    (pc = "done" /\ writer_f = "open") =>
        /\ \A i \in DOMAIN EdgesShown : EdgesShown[i].targets /= <<>>
        /\ Len(EdgesShown) = Cardinality(SourcesWithRetainedTarget)

============================================================================
